---- MODULE Spec2Model ----
(***************************************************************************)
(* A model of the `permissions` package: the attribute cache and the       *)
(* assertion engine of permissions/permissions.py, the registry swap of    *)
(* permissions/__init__.py and the Role ordering of permissions/roles.py.  *)
(*                                                                         *)
(* Whole calls of the interface are one action each (Spec, SpecCache,      *)
(* SpecReasons, SpecEntry). get is also executed step by step, by two      *)
(* execution contexts (SpecThreads) and with init functions that call get  *)
(* (SpecNested). The comparisons and the definition of Role sets are       *)
(* SpecRole and SpecDefine.                                                *)
(*                                                                         *)
(* The code is Python 2 (dict.iteritems, the list-returning filter, the    *)
(* enum34 backport), and the model follows Python 2 semantics.             *)
(*                                                                         *)
(* Lists have identity. A list the package creates (the `[]` and `[v]` of  *)
(* set_deny_reason and set_default_reasons) is stored under one key of one *)
(* dictionary and nowhere else, so its content is kept in place. A list    *)
(* of the caller, handed over inside a mapping, is stored by reference: a  *)
(* key holds its id, the heap holds its content, and several keys may hold *)
(* the same list.                                                          *)
(***************************************************************************)
EXTENDS Integers, Sequences, FiniteSets, TLC

(***************************************************************************)
(* Bounds of the model.                                                    *)
(***************************************************************************)
\* the longest deny-reason list an operation may build
MaxLen == 2
\* the most init-function executions recorded per actor object
MaxInitLog == 6

(***************************************************************************)
(* The universe of names and objects.                                      *)
(***************************************************************************)
Actors == {"alice", "bob"}
\* "ghost" is registered in no registry
ActorTypes == {"user", "admin", "ghost"}
AttrNames == {"age", "nick"}
Actions == {"delete", "read"}
ReasonsKey == "_reasons"
\* every string that is used as a key of a dictionary
AllNames == ActorTypes \cup AttrNames \cup Actions \cup {ReasonsKey}
Msgs == {"m1", "m2"}

(***************************************************************************)
(* Python values: a tag and a number. "absent" is no value: it marks a key *)
(* that a dictionary does not hold.                                        *)
(***************************************************************************)
None == [t |-> "none", v |-> 0]
PyBool(b) == [t |-> "bool", v |-> IF b THEN 1 ELSE 0]
PyInt(n) == [t |-> "int", v |-> n]
\* the value of the key '_reasons': the nested dictionary of the entry
ReasonsDict == [t |-> "dict", v |-> 0]
Absent == [t |-> "absent", v |-> 0]

\* Python's ==: bool is a subtype of int (True == 1), None equals only None,
\* a dictionary is compared with itself only in this model
PyEq(a, b) ==
    \/ a.t \in {"bool", "int"} /\ b.t \in {"bool", "int"} /\ a.v = b.v
    \/ a.t = "none" /\ b.t = "none"
    \/ a.t = "dict" /\ b.t = "dict"

\* Python's truth value; rs is the content of the nested reasons dictionary
Truthy(a, rs) ==
    CASE a.t = "none" -> FALSE
      [] a.t \in {"bool", "int"} -> a.v # 0
      [] a.t = "dict" -> \E k \in AllNames : rs[k].kind # "none"
      [] OTHER -> FALSE

(***************************************************************************)
(* Lists of deny reasons.                                                  *)
(***************************************************************************)
\* the lists the caller owns
CallerLists == {1}

\* what a key of the dictionary of reasons holds: nothing, a list the package
\* created (with its content), or a list of the caller (by id)
NoList == [kind |-> "none", id |-> 0, items |-> <<>>]
Own(items) == [kind |-> "own", id |-> 0, items |-> items]
Ref(i) == [kind |-> "ref", id |-> i, items |-> <<>>]

\* the content of the list x
Items(W, x) == IF x.kind = "ref" THEN W.heap[x.id] ELSE x.items

EmptyDict == [k \in AllNames |-> Absent]
NoReasons == [k \in AllNames |-> NoList]

(***************************************************************************)
(* The state.                                                              *)
(***************************************************************************)
VARIABLES
    principals,  \* permissions.principals: the registry
    has,         \* has[o]: the actor object o has the attribute `_abac`
    abac,        \* abac[o]: the dictionary o._abac, key -> value
    reasons,     \* reasons[o]: the dictionary o._abac['_reasons'], key -> list
    heap,        \* heap[i]: the content of the caller's list i
    initLog,     \* initLog[o]: every init function executed on o, in order
    only,        \* only[o]: what has been called on o so far
    last,        \* the last call of the interface and its outcome
    cmp,         \* the last comparison of two Role members and its outcome
    defined,     \* the last definition of a Role set and its outcome
    stack,       \* stack[th]: the get calls in progress in the execution context th
    slot,        \* the dictionary stored as the attribute `_abac` (0: no attribute)
    store,       \* store[d]: the content of the dictionary d
    runs,        \* runs[th]: every init function th has invoked, in order
    base,        \* base[th]: the length of runs[th] when th's current call began
    done,        \* done[th]: how the last finished call of th ended
    calls,       \* calls[th]: the calls th has begun
    overlap,     \* a call began while a call of another context was in progress
    raced        \* a context passed the marker test while another one was
                 \* between its marker test and its marker assignment

\* the state of roles.py
roleVars == <<cmp, defined>>

\* the state of get executed step by step
stepVars == <<stack, slot, store, runs, base, done, calls, overlap, raced>>

vars == <<principals, has, abac, reasons, heap, initLog, only, last, roleVars,
          stepVars>>

\* `x = v` followed by the statements Op(x): v is computed once
Bind(v, Op(_)) == CHOOSE y \in {Op(x) : x \in {v}} : TRUE

\* the objects an operation works on, as one record
World == [has |-> has, abac |-> abac, reasons |-> reasons, heap |-> heap,
          initLog |-> initLog]

(***************************************************************************)
(* permissions.py: the cache entry and its deny reasons.                   *)
(***************************************************************************)
\* setdefaultattr(actor_object, '_abac', {})
setdefaultattr(W, o) ==
    IF W.has[o] THEN W
    ELSE [W EXCEPT !.has[o] = TRUE, !.abac[o] = EmptyDict, !.reasons[o] = NoReasons]

get_abac_dict(W, actor_type, o) == setdefaultattr(W, o)

\* abac_dict.get('_reasons', {}).get(action, [])
get_deny_reason(W, o, action) ==
    IF W.abac[o][ReasonsKey] = Absent THEN <<>>
    ELSE IF W.reasons[o][action].kind = "none" THEN <<>>
    ELSE Items(W, W.reasons[o][action])

\* abac_dict.setdefault('_reasons', {}).setdefault(action, []).append(message)
set_deny_reason(W, o, action, message) ==
    LET W1 == IF W.abac[o][ReasonsKey] = Absent
              THEN [W EXCEPT !.abac[o][ReasonsKey] = ReasonsDict,
                             !.reasons[o] = NoReasons]
              ELSE W
        cur == IF W1.reasons[o][action].kind = "none" THEN Own(<<>>)
               ELSE W1.reasons[o][action]
    IN  IF cur.kind = "ref"
        THEN [W1 EXCEPT !.heap[cur.id] = Append(@, message)]
        ELSE [W1 EXCEPT !.reasons[o][action] = Own(Append(cur.items, message))]

\* a value of the caller's mapping: a single message or one of its lists
Str(m) == [t |-> "str", m |-> m, id |-> 0]
ListRef(i) == [t |-> "list", m |-> "", id |-> i]

\* {k: [v] if not isinstance(v, list) else v for k, v in reasons_dict.iteritems()}
wrap_values(mapping) ==
    [k \in DOMAIN mapping |->
        IF mapping[k].t = "list" THEN Ref(mapping[k].id) ELSE Own(<<mapping[k].m>>)]

\* abac_dict.setdefault('_reasons', reasons_dict) without the update: reasons
\* the entry already holds are kept
set_default_reasons_no_update(W, o, mapping) ==
    LET rd == wrap_values(mapping)
    IN  IF W.abac[o][ReasonsKey] # Absent THEN W
        ELSE [W EXCEPT !.abac[o][ReasonsKey] = ReasonsDict,
                       !.reasons[o] = [k \in AllNames |->
                                         IF k \in DOMAIN rd THEN rd[k] ELSE NoList]]

\* abac_dict.setdefault('_reasons', reasons_dict).update(reasons_dict)
set_default_reasons(W, o, mapping) ==
    LET rd == wrap_values(mapping)
        old == IF W.abac[o][ReasonsKey] = Absent THEN NoReasons ELSE W.reasons[o]
    IN  [W EXCEPT !.abac[o][ReasonsKey] = ReasonsDict,
                  !.reasons[o] = [k \in AllNames |->
                                    IF k \in DOMAIN rd THEN rd[k] ELSE old[k]]]

(***************************************************************************)
(* The caller's side: the functions and registries a caller plugs in.      *)
(* An init function is f(abac_dict, actor_object, context); an assertion   *)
(* function is a(actor_object, resource_object, action, context,           *)
(* abac_dict). Each is modelled by what it does to the entry, what it      *)
(* returns and whether it raises.                                          *)
(***************************************************************************)
AgeOf == [o \in Actors |-> IF o = "alice" THEN 17 ELSE 18]

\* a mapping with one single message
MapStr == "age" :> Str("m1")
\* the defaults an init function seeds: single messages
MapSeed == ("age" :> Str("m1")) @@ ("delete" :> Str("m1"))
\* a mapping whose two keys hold the same list object of the caller
MapShared == ("age" :> ListRef(1)) @@ ("delete" :> ListRef(1))
\* a mapping with a list and a single message
MapMixed == ("age" :> ListRef(1)) @@ ("delete" :> Str("m2"))
Mappings == {MapStr, MapShared, MapMixed}

\* the outcome of a caller's function: the world after it, the exception it
\* raised ("" for none) with its argument, and the value it returned
Outcome(W, exc, args, val) == [W |-> W, exc |-> exc, args |-> args, val |-> val]

InitFn(f, W, o) ==
    CASE f = "load_age" ->
           Outcome([W EXCEPT !.abac[o]["age"] = PyInt(AgeOf[o])], "", <<>>, None)
      [] f = "load_adult" ->
           Outcome([W EXCEPT !.abac[o]["age"] = PyInt(18)], "", <<>>, PyBool(TRUE))
      [] f = "load_nick" ->
           Outcome([W EXCEPT !.abac[o]["nick"] = None], "", <<>>, PyBool(TRUE))
      [] f = "load_guest" ->
           Outcome(W, "", <<>>, PyBool(FALSE))
      [] f = "seed_reasons" ->
           Outcome(set_default_reasons(W, o, MapSeed), "", <<>>, None)
      [] f = "init_boom" ->
           Outcome(W, "CollaboratorError", <<>>, None)

RegA ==
    ("user" :> [init |-> <<"load_age", "seed_reasons">>,
                acts |-> ("delete" :> <<"allow", "deny_reason", "boom">>)
                      @@ ("read" :> <<"is_adult", "allow">>)])
    @@ ("admin" :> [init |-> <<"load_guest", "load_nick">>,
                    acts |-> ("delete" :> <<"boom", "allow">>)])

RegB ==
    ("user" :> [init |-> <<"load_adult", "load_nick">>,
                acts |-> ("read" :> <<"refuse", "allow", "allow">>)])
    @@ ("admin" :> [init |-> <<"load_nick", "init_boom">>,
                    acts |-> ("read" :> <<"is_adult", "allow">>)])

Registries == {RegA, RegB}

\* principals.get(actor_type, {}).get('_init', [])
lookup_init(actor_type) ==
    IF actor_type \in DOMAIN principals THEN principals[actor_type].init ELSE <<>>

\* principals.get(actor_type, {}).get(action, [])
lookup_assertions(actor_type, action) ==
    IF actor_type \in DOMAIN principals
    THEN IF action \in DOMAIN principals[actor_type].acts
         THEN principals[actor_type].acts[action]
         ELSE <<>>
    ELSE <<>>

(***************************************************************************)
(* permissions.py: initialization and get.                                 *)
(***************************************************************************)
RECURSIVE run_init_lazy(_, _, _, _, _)
\* Python 3's filter is lazy: all() stops at the first result that is neither
\* None nor truthy, and the init functions after it never run
run_init_lazy(W, actor_type, o, init, res) ==
    IF init = <<>> THEN Outcome(W, "", <<>>, res)
    ELSE Bind(InitFn(Head(init),
                     [W EXCEPT !.initLog[o] = Append(@, <<actor_type, Head(init)>>)],
                     o),
              LAMBDA r :
                 IF r.exc # "" THEN Outcome(r.W, r.exc, r.args, res)
                 ELSE IF r.val # None /\ ~Truthy(r.val, r.W.reasons[o])
                 THEN Outcome(r.W, "", <<>>, Append(res, r.val))
                 ELSE run_init_lazy(r.W, actor_type, o, Tail(init),
                                    Append(res, r.val)))

RECURSIVE run_init(_, _, _, _, _)
\* [f(abac_dict, actor_object, context) for f in init]: Python 2's filter builds
\* the whole list before all() looks at it, so every init function runs unless
\* one raises. res collects the results.
run_init(W, actor_type, o, init, res) ==
    IF init = <<>> THEN Outcome(W, "", <<>>, res)
    ELSE Bind(InitFn(Head(init),
                     [W EXCEPT !.initLog[o] = Append(@, <<actor_type, Head(init)>>)],
                     o),
              LAMBDA r :
                 IF r.exc # "" THEN Outcome(r.W, r.exc, r.args, res)
                 ELSE run_init(r.W, actor_type, o, Tail(init), Append(res, r.val)))

\* all(filter(lambda v: v is not None, results))
all_not_none(res, rs) ==
    \A i \in 1 .. Len(res) : res[i] # None => Truthy(res[i], rs)

\* `not abac_dict`
IsEmpty(d) == \A k \in AllNames : d[k] = Absent

\* the marker test inverted: `actor_type in abac_dict` for `not actor_type in abac_dict`
needs_init_inverted(d, actor_type) == IsEmpty(d) \/ d[actor_type] # Absent

\* `if not abac_dict:` alone: one initialization per dictionary
needs_init_per_object(d, actor_type) == IsEmpty(d)

\* the test of line 119
needs_init(d, actor_type) == IsEmpty(d) \/ d[actor_type] = Absent

load_abac_dict(W, actor_type, o) ==
    Bind(get_abac_dict(W, actor_type, o), LAMBDA W1 :
        IF needs_init(W1.abac[o], actor_type)
        THEN Bind(run_init(W1, actor_type, o, lookup_init(actor_type), <<>>),
                  LAMBDA r :
                     IF r.exc # "" THEN r
                     ELSE Outcome([r.W EXCEPT !.abac[o][actor_type] =
                                       PyBool(all_not_none(r.val, r.W.reasons[o]))],
                                  "", <<>>, None))
        ELSE Outcome(W1, "", <<>>, None))

\* dict.get(key): None for a key the dictionary does not hold
dict_get(d, key) == IF d[key] = Absent THEN None ELSE d[key]

get(W, actor_type, o, actor_attribute) ==
    Bind(load_abac_dict(W, actor_type, o), LAMBDA r :
        IF r.exc # "" THEN r
        ELSE Outcome(r.W, "", <<>>, dict_get(r.W.abac[o], actor_attribute)))

(***************************************************************************)
(* permissions.py: is_.                                                    *)
(***************************************************************************)
\* value_expr: a value to compare with, or a callable
Lit(v) == [fn |-> "", val |-> v]
Fn(name) == [fn |-> name, val |-> None]
ValueExprs == {Lit(PyBool(TRUE)), Lit(PyInt(17)), Lit(None), Fn("adult"), Fn("ident")}

callable(value_expr) == value_expr.fn # ""

\* value_expr(value): "adult" is lambda v: v >= 18 (Python 2 orders None and
\* dictionaries below every number), "ident" is lambda v: v
apply(value_expr, value) ==
    IF value_expr.fn = "adult"
    THEN PyBool(value.t \in {"bool", "int"} /\ value.v >= 18)
    ELSE value

\* is_ without the callable branch: value_expr is always compared
is_eq_only(W, actor_type, o, actor_attribute, value_expr) ==
    Bind(get(W, actor_type, o, actor_attribute), LAMBDA g :
        IF g.exc # "" THEN g
        ELSE IF ~PyEq(g.val, value_expr.val)
        THEN Bind(get_abac_dict(g.W, actor_type, o), LAMBDA abac_dict :
                 Outcome(abac_dict, "PermissionDenied",
                         get_deny_reason(abac_dict, o, actor_attribute), None))
        ELSE Outcome(g.W, "", <<>>, None))

\* is_ raising PermissionDenied() without the deny reasons
is_no_reasons(W, actor_type, o, actor_attribute, value_expr) ==
    Bind(get(W, actor_type, o, actor_attribute), LAMBDA g :
        LET value == g.val
            eq == PyBool(PyEq(value, value_expr.val))
            match == IF callable(value_expr) THEN apply(value_expr, value) ELSE eq
        IN  IF g.exc # "" THEN g
            ELSE IF ~Truthy(match, g.W.reasons[o])
            THEN Outcome(get_abac_dict(g.W, actor_type, o), "PermissionDenied",
                         <<>>, None)
            ELSE Outcome(g.W, "", <<>>, None))

is_(W, actor_type, o, actor_attribute, value_expr) ==
    Bind(get(W, actor_type, o, actor_attribute), LAMBDA g :
        LET value == g.val
            eq == PyBool(PyEq(value, value_expr.val))
            match == IF callable(value_expr) THEN apply(value_expr, value) ELSE eq
        IN  IF g.exc # "" THEN g
            ELSE IF ~Truthy(match, g.W.reasons[o])
            THEN Bind(get_abac_dict(g.W, actor_type, o), LAMBDA abac_dict :
                     Outcome(abac_dict, "PermissionDenied",
                             get_deny_reason(abac_dict, o, actor_attribute), None))
            ELSE Outcome(g.W, "", <<>>, None))

(***************************************************************************)
(* permissions.py: can.                                                    *)
(***************************************************************************)
AssertFn(a, W, o, action) ==
    CASE a = "allow" -> Outcome(W, "", <<>>, PyBool(TRUE))
      [] a = "refuse" -> Outcome(W, "", <<>>, PyBool(FALSE))
      [] a = "deny_reason" ->
           Outcome(set_deny_reason(W, o, action, "m2"), "", <<>>, PyBool(FALSE))
      [] a = "boom" -> Outcome(W, "CollaboratorError", <<>>, None)
      [] a = "is_adult" ->
           Bind(is_(W, "user", o, "age", Fn("adult")), LAMBDA r :
               IF r.exc # "" THEN r ELSE Outcome(r.W, "", <<>>, PyBool(TRUE)))

\* what can() did, for the properties: the assertions it invoked, how each
\* ended ("true", "false" or the exception it raised), whether the entry held
\* the marker of actor_type at each invocation, and the exception an assertion
\* raised with its argument
NoTrace == [invoked |-> <<>>, results |-> <<>>, ready |-> <<>>,
            raised |-> <<"", <<>>>>]

Traced(r, tr) ==
    [W |-> r.W, exc |-> r.exc, args |-> r.args, val |-> r.val, tr |-> tr]

RECURSIVE run_assertions_eager(_, _, _, _, _, _)
\* all([a(...) for a in assertions]): a list for the generator, so that every
\* assertion runs before all() looks at the first result
run_assertions_eager(W, actor_type, o, action, assertions, tr) ==
    IF assertions = <<>> THEN Traced(Outcome(W, "", <<>>, PyBool(TRUE)), tr)
    ELSE Bind(AssertFn(Head(assertions), W, o, action), LAMBDA r :
        LET ok == r.exc = "" /\ Truthy(r.val, r.W.reasons[o])
            tr2 == [invoked |-> Append(tr.invoked, Head(assertions)),
                    results |-> Append(tr.results,
                                  IF r.exc # "" THEN r.exc
                                  ELSE IF ok THEN "true" ELSE "false"),
                    ready |-> Append(tr.ready, W.abac[o][actor_type] # Absent),
                    raised |-> <<r.exc, r.args>>]
        IN  IF r.exc # "" THEN Traced(r, tr2)
            ELSE Bind(tr2, LAMBDA t2 :
                     run_assertions_eager(r.W, actor_type, o, action,
                                          Tail(assertions), t2)))

RECURSIVE run_assertions(_, _, _, _, _, _)
\* all(a(actor_object, resource_object, action, context, abac_dict=abac_dict)
\*     for a in assertions): the generator is consumed one assertion at a time
\* and all() stops at the first falsy result; an exception ends it
run_assertions(W, actor_type, o, action, assertions, tr) ==
    IF assertions = <<>> THEN Traced(Outcome(W, "", <<>>, PyBool(TRUE)), tr)
    ELSE Bind(AssertFn(Head(assertions), W, o, action), LAMBDA r :
        LET ok == r.exc = "" /\ Truthy(r.val, r.W.reasons[o])
            tr2 == [invoked |-> Append(tr.invoked, Head(assertions)),
                    results |-> Append(tr.results,
                                  IF r.exc # "" THEN r.exc
                                  ELSE IF ok THEN "true" ELSE "false"),
                    ready |-> Append(tr.ready, W.abac[o][actor_type] # Absent),
                    raised |-> <<r.exc, r.args>>]
        IN  IF r.exc # "" THEN Traced(r, tr2)
            ELSE IF ~ok THEN Traced(Outcome(r.W, "", <<>>, PyBool(FALSE)), tr2)
            ELSE Bind(tr2, LAMBDA t2 :
                     run_assertions(r.W, actor_type, o, action, Tail(assertions), t2)))

\* can with `return all(...)`
can_returning(W, actor_type, o, action) ==
    Bind(get_abac_dict(W, actor_type, o), LAMBDA abac_dict :
        run_assertions(abac_dict, actor_type, o, action,
                       lookup_assertions(actor_type, action), NoTrace))

\* can raising PermissionDenied itself when the chain ends falsy
can_raising(W, actor_type, o, action) ==
    Bind(get_abac_dict(W, actor_type, o), LAMBDA abac_dict :
        Bind(run_assertions(abac_dict, actor_type, o, action,
                            lookup_assertions(actor_type, action), NoTrace),
             LAMBDA r :
                IF r.exc # "" THEN r
                ELSE IF ~Truthy(r.val, r.W.reasons[o])
                THEN Traced(Outcome(r.W, "PermissionDenied",
                                    get_deny_reason(r.W, o, action), None), r.tr)
                ELSE Traced(Outcome(r.W, "", <<>>, None), r.tr)))

\* can with _load_abac_dict for _get_abac_dict
can_initializing(W, actor_type, o, action) ==
    Bind(load_abac_dict(W, actor_type, o), LAMBDA l :
        IF l.exc # "" THEN Traced(l, NoTrace)
        ELSE Bind(run_assertions(l.W, actor_type, o, action,
                                 lookup_assertions(actor_type, action), NoTrace),
                  LAMBDA r :
                     IF r.exc # "" THEN r
                     ELSE Traced(Outcome(r.W, "", <<>>, None), r.tr)))

\* the value of the all(...) expression is dropped: can has no return statement
can(W, actor_type, o, action) ==
    Bind(get_abac_dict(W, actor_type, o), LAMBDA abac_dict :
        Bind(run_assertions(abac_dict, actor_type, o, action,
                            lookup_assertions(actor_type, action), NoTrace),
             LAMBDA r :
                IF r.exc # "" THEN r
                ELSE Traced(Outcome(r.W, "", <<>>, None), r.tr)))

(***************************************************************************)
(* The calls of the interface, one action each.                            *)
(***************************************************************************)
NoExpr == Lit(None)

\* the record of a call: what was called, with what, and how it ended; seen is
\* what get returns for the same arguments in the state of the call
Call(op, t, o, key, expr, r, seen, tr, inited) ==
    [op |-> op, t |-> t, o |-> o, key |-> key, expr |-> expr,
     exc |-> r.exc, args |-> r.args, val |-> r.val, seen |-> seen,
     invoked |-> tr.invoked, results |-> tr.results, ready |-> tr.ready,
     raised |-> tr.raised, inited |-> inited]

Within(W) ==
    /\ \A i \in CallerLists : Len(W.heap[i]) <= MaxLen
    /\ \A o \in Actors, k \in AllNames : Len(W.reasons[o][k].items) <= MaxLen
    /\ \A o \in Actors : Len(W.initLog[o]) <= MaxInitLog

Store(W) ==
    /\ Within(W)
    /\ has' = W.has
    /\ abac' = W.abac
    /\ reasons' = W.reasons
    /\ heap' = W.heap
    /\ initLog' = W.initLog

\* only[o] after a get / is_ call with actor type t: the calls on o so far are
\* get / is_ calls with this one actor type, none of whose init functions raised
Narrow(o, t, r) ==
    [only EXCEPT ![o] = IF r.exc = "CollaboratorError" THEN "mixed"
                        ELSE IF @ \in {"fresh", t} THEN t ELSE "mixed"]

Get(t, o, name) ==
    \E r \in {get(World, t, o, name)} :
        /\ Store(r.W)
        /\ last' = Call("get", t, o, name, NoExpr, r, r.val, NoTrace,
                        Len(r.W.initLog[o]) > Len(initLog[o]))
        /\ only' = Narrow(o, t, r)
        /\ UNCHANGED <<principals, roleVars, stepVars>>

Is(t, o, name, expr) ==
    \E r \in {is_(World, t, o, name, expr)} :
        /\ Store(r.W)
        /\ last' = Call("is_", t, o, name, expr, r, get(World, t, o, name).val,
                        NoTrace, Len(r.W.initLog[o]) > Len(initLog[o]))
        /\ only' = Narrow(o, t, r)
        /\ UNCHANGED <<principals, roleVars, stepVars>>

Can(t, o, action) ==
    \E r \in {can(World, t, o, action)} :
        /\ Store(r.W)
        /\ last' = Call("can", t, o, action, NoExpr, r, None, r.tr,
                        Len(r.W.initLog[o]) > Len(initLog[o]))
        /\ only' = [only EXCEPT ![o] = "mixed"]
        /\ UNCHANGED <<principals, roleVars, stepVars>>

\* the three operations on an entry, called on the entry of actor o
SetDenyReason(o, action, message) ==
    \E W \in {set_deny_reason(get_abac_dict(World, "user", o), o, action, message)} :
        /\ Store(W)
        /\ last' = Call("set_deny_reason", "", o, action, NoExpr,
                        Outcome(W, "", <<message>>, None), None, NoTrace, FALSE)
        /\ only' = [only EXCEPT ![o] = "mixed"]
        /\ UNCHANGED <<principals, roleVars, stepVars>>

GetDenyReason(o, action) ==
    \E W \in {get_abac_dict(World, "user", o)} :
        /\ Store(W)
        /\ last' = Call("get_deny_reason", "", o, action, NoExpr,
                        Outcome(W, "", get_deny_reason(W, o, action), None),
                        None, NoTrace, FALSE)
        /\ only' = [only EXCEPT ![o] = "mixed"]
        /\ UNCHANGED <<principals, roleVars, stepVars>>

\* get_deny_reason on the entry acquired for the actor type t
GetDenyReasonFor(t, o, action) ==
    \E W \in {get_abac_dict(World, t, o)} :
        /\ Store(W)
        /\ last' = Call("get_deny_reason", t, o, action, NoExpr,
                        Outcome(W, "", get_deny_reason(W, o, action), None),
                        None, NoTrace, FALSE)
        /\ only' = [only EXCEPT ![o] = "mixed"]
        /\ UNCHANGED <<principals, roleVars, stepVars>>

SetDefaultReasons(o, mapping) ==
    \E W \in {set_default_reasons(get_abac_dict(World, "user", o), o, mapping)} :
        /\ Store(W)
        /\ last' = Call("set_default_reasons", "", o, "", NoExpr,
                        Outcome(W, "", <<>>, None), None, NoTrace, FALSE)
        /\ only' = [only EXCEPT ![o] = "mixed"]
        /\ UNCHANGED <<principals, roleVars, stepVars>>

\* set_principals dropping the cache entries along with the old registry
set_principals_clearing(new) ==
    /\ new # principals
    /\ principals' = new
    /\ has' = [o \in Actors |-> FALSE]
    /\ abac' = [o \in Actors |-> EmptyDict]
    /\ reasons' = [o \in Actors |-> NoReasons]
    /\ only' = [o \in Actors |-> IF only[o] = "fresh" THEN "fresh" ELSE "mixed"]
    /\ last' = Call("set_principals", "", "", "", NoExpr,
                    Outcome(World, "", <<>>, None), None, NoTrace, FALSE)
    /\ UNCHANGED <<heap, initLog, roleVars, stepVars>>

\* permissions.principals = principals
set_principals(new) ==
    /\ new # principals
    /\ principals' = new
    /\ only' = [o \in Actors |-> IF only[o] = "fresh" THEN "fresh" ELSE "mixed"]
    /\ last' = Call("set_principals", "", "", "", NoExpr,
                    Outcome(World, "", <<>>, None), None, NoTrace, FALSE)
    /\ UNCHANGED <<has, abac, reasons, heap, initLog, roleVars, stepVars>>

(***************************************************************************)
(* roles.py: the ordering of Role members.                                 *)
(***************************************************************************)
Member(cls, name, value) == [cls |-> cls, name |-> name, value |-> value]

\* the example of the module's documentation
MyRoles == {Member("MyRoles", "ROOT", 1), Member("MyRoles", "ADMIN", 5),
            Member("MyRoles", "USER", 10)}
\* another Role set, with ranks that also occur in MyRoles
Staff == {Member("Staff", "OWNER", 1), Member("Staff", "CLERK", 5),
          Member("Staff", "TEMP", 7)}
Members == MyRoles \cup Staff
NoMember == Member("", "", 0)

\* super(Role, self).__xx__(other): the Enum base class orders nothing and the
\* comparison ends in a TypeError
Unorderable == [exc |-> "TypeError", val |-> None]
Ordered(b) == [exc |-> "", val |-> PyBool(b)]

\* >= read as "ranks at least as high": the lower value is the higher rank
Role_ge_by_authority(self, other) ==
    IF self.cls = other.cls THEN Ordered(self.value <= other.value) ELSE Unorderable

Role_ge(self, other) ==
    IF self.cls = other.cls THEN Ordered(self.value >= other.value) ELSE Unorderable

Role_gt(self, other) ==
    IF self.cls = other.cls THEN Ordered(self.value > other.value) ELSE Unorderable

Role_le(self, other) ==
    IF self.cls = other.cls THEN Ordered(self.value <= other.value) ELSE Unorderable

\* __lt__ without the test of the classes: the values of any two members
Role_lt_any_class(self, other) == Ordered(self.value < other.value)

Role_lt(self, other) ==
    IF self.cls = other.cls THEN Ordered(self.value < other.value) ELSE Unorderable

Compared(op, a, b, r) == [op |-> op, a |-> a, b |-> b, exc |-> r.exc, val |-> r.val]

EngineIdle ==
    UNCHANGED <<principals, has, abac, reasons, heap, initLog, only, last, stepVars>>

\* a comparison defines no Role set and leaves the engine alone
RoleIdle == EngineIdle /\ UNCHANGED defined

\* a >= b
Ge(a, b) == cmp' = Compared(">=", a, b, Role_ge(a, b)) /\ RoleIdle
\* a > b
Gt(a, b) == cmp' = Compared(">", a, b, Role_gt(a, b)) /\ RoleIdle
\* a <= b
Le(a, b) == cmp' = Compared("<=", a, b, Role_le(a, b)) /\ RoleIdle
\* a < b
Lt(a, b) == cmp' = Compared("<", a, b, Role_lt(a, b)) /\ RoleIdle

NextRole ==
    \/ \E a \in Members, b \in Members : Ge(a, b)
    \/ \E a \in Members, b \in Members : Gt(a, b)
    \/ \E a \in Members, b \in Members : Le(a, b)
    \/ \E a \in Members, b \in Members : Lt(a, b)

(***************************************************************************)
(* roles.py: the definition of a Role set. The body of `class X(Role)` is  *)
(* handed to the metaclass of Enum, which creates the members one by one   *)
(* and calls Role.__init__ on each; the members created before it are what *)
(* iterating the class gives at that moment.                               *)
(***************************************************************************)
\* the most members a class body declares
MaxMembers == 3
RoleNames == {"X", "Y", "Z"}
Ranks == {1, 2, 3}

\* a class body: the declarations name = value, no name declared twice
ClassBodies ==
    {b \in UNION {[1 .. n -> RoleNames \X Ranks] : n \in 0 .. MaxMembers} :
        \A i, j \in DOMAIN b : b[i][1] = b[j][1] => i = j}

\* the orders in which the members of a body are created. Python 2 keeps no
\* definition order: the metaclass sorts the declarations by value, and
\* declarations of equal value come in the order of the class dictionary,
\* which is any order.
CreationOrders(b) ==
    {p \in [DOMAIN b -> DOMAIN b] :
        /\ \A i, j \in DOMAIN b : p[i] = p[j] => i = j
        /\ \A i, j \in DOMAIN b : i < j => b[p[i]][2] <= b[p[j]][2]}

\* the outcome of a class definition: the exception it ended with and its
\* arguments, and the members of the class ("" and all of them without one)
Defined(b, exc, args, members) ==
    [body |-> b, exc |-> exc, args |-> args, members |-> members]

\* Role.__init__ without the check
Role_init_unchecked(self, members) == [exc |-> "", args |-> <<>>]

\* members: what `for e in cls` gives, the members created so far.
\* cls(self.value) is the one member of that value.
Role_init(self, members) ==
    IF \E i \in DOMAIN members : self.value = members[i].value
    THEN LET a == self.name
             e == members[CHOOSE i \in DOMAIN members :
                             members[i].value = self.value].name
         IN  [exc |-> "ValueError", args |-> <<a, e>>]
    ELSE [exc |-> "", args |-> <<>>]

RECURSIVE create_members(_, _, _, _, _)
\* the loop of the metaclass over the declarations, in the order p; an
\* exception of __init__ ends the class statement and no class is defined
create_members(cls, b, p, i, members) ==
    IF i > Len(b) THEN Defined(b, "", <<>>, members)
    ELSE Bind(Member(cls, b[p[i]][1], b[p[i]][2]), LAMBDA self :
            Bind(Role_init(self, members), LAMBDA r :
                IF r.exc # "" THEN Defined(b, r.exc, r.args, <<>>)
                ELSE create_members(cls, b, p, i + 1, Append(members, self))))

\* class NewRoles(Role): <b>
DefineRole(b, p) ==
    /\ defined' = create_members("NewRoles", b, p, 1, <<>>)
    /\ EngineIdle
    /\ UNCHANGED cmp

NextDefine == \E b \in ClassBodies : \E p \in CreationOrders(b) : DefineRole(b, p)

(***************************************************************************)
(* permissions.py: get executed step by step, by several execution         *)
(* contexts (threads) on one actor object. A context is switched between   *)
(* the steps: the two halves of setdefaultattr, the marker test, each      *)
(* init function, the marker assignment and the final read. A get call an  *)
(* init function makes is a new activation on the stack of its context.    *)
(***************************************************************************)
Threads == {1, 2}
\* the calls an execution context makes
MaxCalls == 2
\* the get activations the stack of a context holds before the interpreter
\* refuses the next one ("maximum recursion depth exceeded")
RecursionLimit == 3

StepActor == "alice"

\* the get call an init function makes: the actor type it asks with, the
\* attribute it asks for and the attribute it stores the answer under.
\* load_via_user: abac_dict['age'] = get('user', actor_object, 'age')
\* load_own:      abac_dict['nick'] = get('admin', actor_object, 'nick')
InnerGet(f) ==
    CASE f = "load_via_user" -> [t |-> "user", name |-> "age", into |-> "age"]
      [] f = "load_own" -> [t |-> "admin", name |-> "nick", into |-> "nick"]
      [] OTHER -> [t |-> "", name |-> "", into |-> ""]

\* a registry whose 'admin' init functions call get: one for another actor
\* type, one for the actor type that is being initialized
RegS ==
    ("user" :> [init |-> <<"load_age", "load_nick">>,
                acts |-> ("read" :> <<"allow">>)])
    @@ ("admin" :> [init |-> <<"load_via_user", "load_own">>,
                    acts |-> ("read" :> <<"allow">>)])

\* an activation of get(actor_type, actor_object, name): its position, the
\* dictionary it works on (abac_dict), the index of the next init function
\* and the results of the init functions so far
Frame(t, name) ==
    [t |-> t, name |-> name, pc |-> "getattr", d |-> 0, i |-> 0, res |-> <<>>]

Top(th) == stack[th][Len(stack[th])]
SetTop(th, fr) == [stack EXCEPT ![th][Len(stack[th])] = fr]

\* the objects as an init function sees them when abac_dict is the dictionary d
OnDict(d) == [World EXCEPT !.has[StepActor] = TRUE, !.abac[StepActor] = store[d]]

\* the step-by-step execution leaves the state of whole calls alone
CallsIdle ==
    UNCHANGED <<principals, has, abac, reasons, heap, initLog, only, last, roleVars>>

\* the context th calls get(t, actor_object, name)
Start(th, t, name) ==
    /\ stack[th] = <<>>
    /\ calls[th] < MaxCalls
    /\ stack' = [stack EXCEPT ![th] = <<Frame(t, name)>>]
    /\ calls' = [calls EXCEPT ![th] = @ + 1]
    /\ base' = [base EXCEPT ![th] = Len(runs[th])]
    /\ overlap' = (overlap \/ \E u \in Threads \ {th} : stack[u] # <<>>)
    /\ UNCHANGED <<slot, store, runs, done, raced>>
    /\ CallsIdle

\* setdefaultattr: `return getattr(obj, name)`, or AttributeError
GetAttr(th) ==
    /\ stack[th] # <<>>
    /\ Top(th).pc = "getattr"
    /\ stack' = SetTop(th, IF slot # 0
                           THEN [Top(th) EXCEPT !.d = slot, !.pc = "test"]
                           ELSE [Top(th) EXCEPT !.pc = "setattr"])
    /\ UNCHANGED <<slot, store, runs, base, done, calls, overlap, raced>>
    /\ CallsIdle

\* setdefaultattr: `setattr(obj, name, value); return value`, value being the
\* empty dictionary this activation created
SetAttr(th) ==
    /\ stack[th] # <<>>
    /\ Top(th).pc = "setattr"
    /\ slot' = th
    /\ store' = [store EXCEPT ![th] = EmptyDict]
    /\ stack' = SetTop(th, [Top(th) EXCEPT !.d = th, !.pc = "test"])
    /\ UNCHANGED <<runs, base, done, calls, overlap, raced>>
    /\ CallsIdle

\* `if not abac_dict or not actor_type in abac_dict:`
Test(th) ==
    /\ stack[th] # <<>>
    /\ Top(th).pc = "test"
    /\ IF needs_init(store[Top(th).d], Top(th).t)
       THEN /\ stack' = SetTop(th, [Top(th) EXCEPT !.pc = "init", !.i = 1,
                                                   !.res = <<>>])
            /\ raced' = (raced \/ \E u \in Threads \ {th} :
                                     stack[u] # <<>> /\ Top(u).pc = "init")
       ELSE /\ stack' = SetTop(th, [Top(th) EXCEPT !.pc = "read"])
            /\ UNCHANGED raced
    /\ UNCHANGED <<slot, store, runs, base, done, calls, overlap>>
    /\ CallsIdle

\* the next init function of the activation
NextInit(th) == lookup_init(Top(th).t)[Top(th).i]

\* the activation is inside the list of init functions
InInit(th) ==
    /\ stack[th] # <<>>
    /\ Top(th).pc = "init"
    /\ Top(th).i <= Len(lookup_init(Top(th).t))

\* f(abac_dict, actor_object, context) for an init function that calls
\* nothing of the package
RunInit(th) ==
    /\ InInit(th)
    /\ InnerGet(NextInit(th)).t = ""
    /\ \E r \in {InitFn(NextInit(th), OnDict(Top(th).d), StepActor)} :
          /\ store' = [store EXCEPT ![Top(th).d] = r.W.abac[StepActor]]
          /\ IF r.exc # ""
             THEN /\ stack' = [stack EXCEPT ![th] = <<>>]
                  /\ done' = [done EXCEPT ![th] = [exc |-> r.exc, val |-> None]]
             ELSE /\ stack' = SetTop(th, [Top(th) EXCEPT !.i = @ + 1,
                                                         !.res = Append(@, r.val)])
                  /\ UNCHANGED done
    /\ runs' = [runs EXCEPT ![th] = Append(@, <<Top(th).t, NextInit(th)>>)]
    /\ UNCHANGED <<slot, base, calls, overlap, raced>>
    /\ CallsIdle

\* an init function is invoked and calls get: a new activation
Enter(th) ==
    /\ InInit(th)
    /\ InnerGet(NextInit(th)).t # ""
    /\ Len(stack[th]) < RecursionLimit
    /\ stack' = [stack EXCEPT ![th] =
                    Append(@, Frame(InnerGet(NextInit(th)).t,
                                    InnerGet(NextInit(th)).name))]
    /\ runs' = [runs EXCEPT ![th] = Append(@, <<Top(th).t, NextInit(th)>>)]
    /\ UNCHANGED <<slot, store, base, done, calls, overlap, raced>>
    /\ CallsIdle

\* an init function is invoked and calls get, and the interpreter has no room
\* for the activation: the RuntimeError ends every activation of the context
Overflow(th) ==
    /\ InInit(th)
    /\ InnerGet(NextInit(th)).t # ""
    /\ Len(stack[th]) >= RecursionLimit
    /\ stack' = [stack EXCEPT ![th] = <<>>]
    /\ done' = [done EXCEPT ![th] = [exc |-> "RuntimeError", val |-> None]]
    /\ runs' = [runs EXCEPT ![th] = Append(@, <<Top(th).t, NextInit(th)>>)]
    /\ UNCHANGED <<slot, store, base, calls, overlap, raced>>
    /\ CallsIdle

\* `abac_dict[actor_type] = res`, after the last init function
Mark(th) ==
    /\ stack[th] # <<>>
    /\ Top(th).pc = "init"
    /\ Top(th).i > Len(lookup_init(Top(th).t))
    /\ store' = [store EXCEPT ![Top(th).d][Top(th).t] =
                    PyBool(all_not_none(Top(th).res, NoReasons))]
    /\ stack' = SetTop(th, [Top(th) EXCEPT !.pc = "read"])
    /\ UNCHANGED <<slot, runs, base, done, calls, overlap, raced>>
    /\ CallsIdle

\* `return abac_dict.get(actor_attribute)`: to the caller of the context, or
\* to the init function that called, which stores the value and returns None
Return(th) ==
    /\ stack[th] # <<>>
    /\ Top(th).pc = "read"
    /\ \E v \in {dict_get(store[Top(th).d], Top(th).name)} :
          IF Len(stack[th]) = 1
          THEN /\ stack' = [stack EXCEPT ![th] = <<>>]
               /\ done' = [done EXCEPT ![th] = [exc |-> "", val |-> v]]
               /\ UNCHANGED store
          ELSE LET caller == stack[th][Len(stack[th]) - 1]
                   f == lookup_init(caller.t)[caller.i]
               IN  /\ store' = [store EXCEPT ![caller.d][InnerGet(f).into] = v]
                   /\ stack' = [stack EXCEPT ![th] =
                                   Append(SubSeq(@, 1, Len(@) - 2),
                                          [caller EXCEPT !.i = @ + 1,
                                                         !.res = Append(@, None)])]
                   /\ UNCHANGED done
    /\ UNCHANGED <<slot, runs, base, calls, overlap, raced>>
    /\ CallsIdle

\* the state after the import of the package and the caller's set-up: the
\* registry reg is installed, no actor object has an entry, nothing was called
Boot(reg) ==
    /\ cmp = Compared("", NoMember, NoMember, Ordered(FALSE))
    /\ defined = Defined(<<>>, "", <<>>, <<>>)
    /\ principals = reg
    /\ stack = [th \in Threads |-> <<>>]
    /\ slot = 0
    /\ store = [d \in Threads |-> EmptyDict]
    /\ runs = [th \in Threads |-> <<>>]
    /\ base = [th \in Threads |-> 0]
    /\ done = [th \in Threads |-> [exc |-> "", val |-> None]]
    /\ calls = [th \in Threads |-> 0]
    /\ overlap = FALSE
    /\ raced = FALSE
    /\ has = [o \in Actors |-> FALSE]
    /\ abac = [o \in Actors |-> EmptyDict]
    /\ reasons = [o \in Actors |-> NoReasons]
    /\ heap = [i \in CallerLists |-> <<>>]
    /\ initLog = [o \in Actors |-> <<>>]
    /\ only = [o \in Actors |-> "fresh"]
    /\ last = Call("", "", "", "", NoExpr, Outcome(World, "", <<>>, None),
                   None, NoTrace, FALSE)

Init == Boot(RegA)

\* the set-up with the registry whose init functions call get
InitSteps == Boot(RegS)

(***************************************************************************)
(* The engine: get, is_ and can on one actor object, and the registry      *)
(* swap. Deny reasons are recorded by the init and assertion functions.    *)
(***************************************************************************)
EngineActors == {"alice"}
\* an attribute, an attribute stored as None, an actor type, the reasons key,
\* and an action that is no attribute
EngineNames == {"age", "nick", "user", ReasonsKey, "delete"}

Next ==
    \/ \E t \in ActorTypes, o \in EngineActors, name \in EngineNames : Get(t, o, name)
    \/ \E t \in ActorTypes, o \in EngineActors, name \in EngineNames,
           expr \in ValueExprs : Is(t, o, name, expr)
    \/ \E t \in ActorTypes, o \in EngineActors, action \in Actions : Can(t, o, action)
    \/ \E new \in Registries : set_principals(new)

Spec == Init /\ [][Next]_vars

(***************************************************************************)
(* The deny reasons of the entries of two actor objects, worked on         *)
(* directly, as init and assertion functions do.                           *)
(***************************************************************************)
\* the names deny reasons are recorded under
ReasonNames == {"age", "delete"}

NextReasons ==
    \/ \E o \in Actors, action \in ReasonNames, m \in Msgs :
          SetDenyReason(o, action, m)
    \/ \E o \in Actors, action \in ReasonNames \cup {"read"} :
          GetDenyReason(o, action)
    \/ \E o \in Actors, mapping \in Mappings : SetDefaultReasons(o, mapping)

SpecReasons == Init /\ [][NextReasons]_vars

(***************************************************************************)
(* The life of one cache entry: an actor object used under several actor   *)
(* types and registries, with deny reasons recorded on its entry.          *)
(***************************************************************************)
CacheActors == {"alice"}

NextCache ==
    \/ \E t \in ActorTypes, o \in CacheActors, name \in AttrNames : Get(t, o, name)
    \/ \E t \in ActorTypes, o \in CacheActors : Is(t, o, "age", Fn("adult"))
    \/ \E t \in ActorTypes, o \in CacheActors, action \in Actions : Can(t, o, action)
    \/ \E o \in CacheActors : SetDenyReason(o, "age", "m1")
    \/ \E t \in ActorTypes, o \in CacheActors : GetDenyReasonFor(t, o, "age")
    \/ \E o \in CacheActors : SetDefaultReasons(o, MapMixed)
    \/ \E new \in Registries : set_principals(new)

SpecCache == Init /\ [][NextCache]_vars

(***************************************************************************)
(* The deny reasons of one entry.                                          *)
(***************************************************************************)
EntryActors == {"alice"}

NextEntry ==
    \/ \E o \in EntryActors, action \in ReasonNames, m \in Msgs :
          SetDenyReason(o, action, m)
    \/ \E o \in EntryActors, action \in ReasonNames \cup {"read"} :
          GetDenyReason(o, action)
    \/ \E o \in EntryActors, mapping \in Mappings : SetDefaultReasons(o, mapping)

SpecEntry == Init /\ [][NextEntry]_vars

(***************************************************************************)
(* The comparisons of Role members.                                        *)
(***************************************************************************)
SpecRole == Init /\ [][NextRole]_vars

(***************************************************************************)
(* Two execution contexts calling get('user', ...) on one actor object.    *)
(***************************************************************************)
NextThreads ==
    \/ \E th \in Threads : Start(th, "user", "age")
    \/ \E th \in Threads : GetAttr(th)
    \/ \E th \in Threads : SetAttr(th)
    \/ \E th \in Threads : Test(th)
    \/ \E th \in Threads : RunInit(th)
    \/ \E th \in Threads : Mark(th)
    \/ \E th \in Threads : Return(th)

SpecThreads == InitSteps /\ [][NextThreads]_vars

(***************************************************************************)
(* One execution context calling get with init functions that call get.    *)
(***************************************************************************)
Single == {1}

NextNested ==
    \/ \E th \in Single, t \in {"user", "admin"}, name \in AttrNames :
          Start(th, t, name)
    \/ \E th \in Single : GetAttr(th)
    \/ \E th \in Single : SetAttr(th)
    \/ \E th \in Single : Test(th)
    \/ \E th \in Single : RunInit(th)
    \/ \E th \in Single : Enter(th)
    \/ \E th \in Single : Overflow(th)
    \/ \E th \in Single : Mark(th)
    \/ \E th \in Single : Return(th)

SpecNested == InitSteps /\ [][NextNested]_vars

(***************************************************************************)
(* The definitions of Role sets.                                           *)
(***************************************************************************)
SpecDefine == Init /\ [][NextDefine]_vars

(***************************************************************************)
(* Properties.                                                             *)
(***************************************************************************)
\* the init functions registered for actor type t, as initLog records them
InitList(t) == [i \in 1 .. Len(lookup_init(t)) |-> <<t, lookup_init(t)[i]>>]

\* C1: as long as the calls on an actor object are get / is_ calls with one
\* actor type, none of whose init functions raised, under one registry, the
\* init functions executed on the object are the registered init functions of
\* that type, each exactly once: the first call runs them and no later call
\* runs any.
C1_InitOnce ==
    \A o \in Actors : only[o] \in ActorTypes => initLog[o] = InitList(only[o])

\* a later get / is_ call of such a sequence, on an entry whose two init
\* functions have run: it ran none
C1_Witness ==
    /\ last.op \in {"get", "is_"}
    /\ last.o \in Actors
    /\ only[last.o] = last.t
    /\ Len(initLog[last.o]) = 2
    /\ ~last.inited

\* the assertion functions registered for the last call's actor type and action
Chain == lookup_assertions(last.t, last.key)

\* C2: can invokes the registered assertion functions in registration order,
\* each at most once; every assertion before the last one invoked returned a
\* truthy result, and can stops before the end of the chain only after an
\* assertion that returned falsy (or raised).
C2_ShortCircuit ==
    last.op = "can" =>
        LET n == Len(last.invoked)
        IN  /\ n <= Len(Chain)
            /\ \A i \in 1 .. n : last.invoked[i] = Chain[i]
            /\ \A i \in 1 .. n - 1 : last.results[i] = "true"
            /\ n < Len(Chain) => n >= 1 /\ last.results[n] # "true"

\* a chain [f1, f2, f3] whose f1 returned falsy: f1 alone was invoked
C2_Witness ==
    /\ last.op = "can"
    /\ Len(Chain) = 3
    /\ last.invoked = <<"refuse">>
    /\ last.results = <<"false">>

\* the last call was can for an actor type that is not in the registry, or for
\* an action without an assertion list under a registered actor type
NoAssertions ==
    /\ last.op = "can"
    /\ \/ last.t \notin DOMAIN principals
       \/ last.key \notin DOMAIN principals[last.t].acts

\* C3 as stated: can returns true and does not raise.
C3_Original == NoAssertions => last.exc = "" /\ last.val = PyBool(TRUE)

\* C3, amended: can does not raise, invokes no assertion, and returns None
\* (can has no return statement; the aggregate of all() is dropped).
C3_NoAssertions ==
    NoAssertions => last.exc = "" /\ last.invoked = <<>> /\ last.val = None

\* can for an actor type that is not in the registry
C3_Witness == NoAssertions /\ last.t \notin DOMAIN principals /\ last.exc = ""

\* C4: is_ raises PermissionDenied exactly when value_expr is callable and
\* value_expr(value) is falsy, or value_expr is not callable and value differs
\* from it (Python's !=), value being what get returns for the attribute; in
\* every other case it returns without raising.
C4_IsRule ==
    last.op = "is_" /\ last.exc # "CollaboratorError" =>
        /\ last.exc \in {"", "PermissionDenied"}
        /\ last.exc = "PermissionDenied" <=>
              IF callable(last.expr)
              THEN ~Truthy(apply(last.expr, last.seen), reasons[last.o])
              ELSE ~PyEq(last.seen, last.expr.val)

\* the predicate v >= 18 on the age 17: is_ raised
C4_Witness ==
    /\ last.op = "is_"
    /\ last.key = "age"
    /\ last.expr = Fn("adult")
    /\ last.seen = PyInt(17)
    /\ last.exc = "PermissionDenied"

\* the deny reasons the entry of actor o holds under key, read from the state
Recorded(o, key) ==
    IF abac[o][ReasonsKey] = Absent \/ reasons[o][key].kind = "none" THEN <<>>
    ELSE IF reasons[o][key].kind = "ref" THEN heap[reasons[o][key].id]
    ELSE reasons[o][key].items

\* C5: the PermissionDenied that is_ raises carries the deny reasons the entry
\* holds under the attribute name at that moment, in recording order, and the
\* empty list when none is recorded. (is_ raises as its last step, so the
\* state after the call is the state of the denial.)
C5_Carries ==
    last.op = "is_" /\ last.exc = "PermissionDenied" =>
        last.args = Recorded(last.o, last.key)

\* a denial that carries two reasons recorded one after the other
C5_Witness ==
    /\ last.op = "is_"
    /\ last.exc = "PermissionDenied"
    /\ last.args = <<"m1", "m2">>

C7_Original ==
    last.op = "can" => \A i \in DOMAIN last.ready : last.ready[i]

\* C7, amended: can acquires the entry without initializing it. The entry
\* handed to the first assertion holds the marker of actor_type exactly if
\* the entry held it before the call, and init functions run during can only
\* when an assertion calls is_ / get.
C7_NoInitByCan ==
    [][last'.op = "can" =>
          /\ last'.ready # <<>> =>
                (last'.ready[1] <=> abac[last'.o][last'.t] # Absent)
          /\ initLog' # initLog =>
                \E i \in DOMAIN last'.invoked : last'.invoked[i] = "is_adult"]_vars

\* can invoked an assertion on an entry without the marker of actor_type
C7_Witness ==
    /\ last.op = "can"
    /\ last.ready # <<>>
    /\ ~last.ready[1]

\* C8 as stated, step by step: set_deny_reason(entry, action, m) appends m to
\* the reasons get_deny_reason returns for action (so k calls on an entry
\* without reasons for action give exactly [m1, ..., mk]) and leaves the
\* reasons of every other action of the entry as they were; get_deny_reason
\* returns the recorded reasons, the empty list when there are none, and
\* changes nothing.
C8_Original ==
    [][\A o \in Actors, k \in AllNames :
          last'.o = o /\ last'.key = k =>
              /\ last'.op = "set_deny_reason" =>
                    /\ Recorded(o, k)' = Recorded(o, k) \o last'.args
                    /\ \A j \in ReasonNames \ {k} : Recorded(o, j)' = Recorded(o, j)
              /\ last'.op = "get_deny_reason" =>
                    /\ last'.args = Recorded(o, k)
                    /\ abac' = abac /\ reasons' = reasons /\ heap' = heap]_vars

\* the names an init or assertion function of the registries writes into the
\* entry: the attributes, and the reasons key through set_deny_reason and
\* set_default_reasons
WrittenNames == AttrNames \cup {ReasonsKey}

\* C9 as stated: get returns None for every name no init or assertion
\* function wrote, and for a name stored as None.
C9_Original ==
    last.op = "get" /\ last.exc = "" =>
        (last.key \notin WrittenNames \/ abac[last.o][last.key] = None
            => last.val = None)

\* what the comparison of two members of one Role set gives by rank value
ByRank(op, a, b) ==
    CASE op = "<" -> a.value < b.value
      [] op = "<=" -> a.value <= b.value
      [] op = ">" -> a.value > b.value
      [] op = ">=" -> a.value >= b.value

ROOT == Member("MyRoles", "ROOT", 1)
ADMIN == Member("MyRoles", "ADMIN", 5)
USER == Member("MyRoles", "USER", 10)

\* the last comparison was a op b
Asked(op, a, b) == cmp.op = op /\ cmp.a = a /\ cmp.b = b

SameSetByRank ==
    cmp.op # "" /\ cmp.a.cls = cmp.b.cls =>
        cmp.exc = "" /\ cmp.val = PyBool(ByRank(cmp.op, cmp.a, cmp.b))

\* C10 as stated: members of one Role set are ordered by rank value, and
\* ROOT < ADMIN is true, ADMIN < USER is true, USER >= ADMIN is false.
C10_Original ==
    /\ SameSetByRank
    /\ Asked("<", ROOT, ADMIN) => cmp.val = PyBool(TRUE)
    /\ Asked("<", ADMIN, USER) => cmp.val = PyBool(TRUE)
    /\ Asked(">=", USER, ADMIN) => cmp.val = PyBool(FALSE)

\* C10, amended: members of one Role set are ordered by rank value, and
\* ROOT < ADMIN is true, ADMIN < USER is true, USER >= ADMIN is true (10 >= 5).
C10_RankOrder ==
    /\ SameSetByRank
    /\ Asked("<", ROOT, ADMIN) => cmp.val = PyBool(TRUE)
    /\ Asked("<", ADMIN, USER) => cmp.val = PyBool(TRUE)
    /\ Asked(">=", USER, ADMIN) => cmp.val = PyBool(TRUE)

\* USER >= ADMIN was evaluated
C10_Witness == Asked(">=", USER, ADMIN) /\ cmp.exc = ""

\* two declarations of the body b have the same rank value
Aliased(b) == \E i, j \in DOMAIN b : i # j /\ b[i][2] = b[j][2]

\* C11: a class body in which two declarations have the same rank value ends
\* in a ValueError whose arguments are the names of two different declarations
\* of one rank value, the new member and the one it conflicts with, and no
\* class is defined; a body of pairwise distinct ranks is defined without an
\* error and has one member per declaration.
C11_AliasFree ==
    LET b == defined.body
    IN  /\ Aliased(b) =>
              /\ defined.exc = "ValueError"
              /\ defined.members = <<>>
              /\ \E i, j \in DOMAIN b :
                    /\ i # j
                    /\ b[i][2] = b[j][2]
                    /\ defined.args = <<b[i][1], b[j][1]>>
        /\ ~Aliased(b) =>
              /\ defined.exc = ""
              /\ Len(defined.members) = Len(b)
              /\ \A i \in DOMAIN b : \E k \in DOMAIN defined.members :
                    /\ defined.members[k].name = b[i][1]
                    /\ defined.members[k].value = b[i][2]

\* the body X = 1, Y = 1 was handed in and the definition failed
C11_Witness ==
    /\ defined.body = << <<"X", 1>>, <<"Y", 1>> >>
    /\ defined.exc = "ValueError"

\* the last comparison was between members of two different Role sets
CrossSet == cmp.op # "" /\ cmp.a.cls # cmp.b.cls

\* C12 as stated: a comparison across two Role sets never raises and yields
\* false.
C12_Original == CrossSet => cmp.exc = "" /\ cmp.val = PyBool(FALSE)

\* C12, amended: each of <, <=, >, >= across two Role sets is refused with a
\* TypeError and yields no result, whatever the rank values are.
C12_CrossSetRefused == CrossSet => cmp.exc = "TypeError" /\ cmp.val = None

\* ROOT of MyRoles < CLERK of Staff was evaluated: rank 1 against rank 5
C12_Witness ==
    /\ Asked("<", ROOT, Member("Staff", "CLERK", 5))
    /\ cmp.exc = "TypeError"

\* the list the caller's value v stands for: the list itself, or [v] for a
\* single message
Wrapped(v) == IF v.t = "list" THEN heap[v.id] ELSE <<v.m>>

\* C13: after set_default_reasons(entry, mapping), get_deny_reason(entry, k)
\* is mapping[k] (as a list) for every key k of mapping, whatever was recorded
\* under k before, and is what it was for every other key.
C13_PerKeyOverwrite ==
    [][\A o \in EntryActors, mapping \in Mappings :
          last'.op = "set_default_reasons" /\ SetDefaultReasons(o, mapping) =>
              /\ \A k \in DOMAIN mapping :
                    get_deny_reason(World, o, k)' = Wrapped(mapping[k])
              /\ \A k \in AllNames \ DOMAIN mapping :
                    get_deny_reason(World, o, k)' = Recorded(o, k)]_vars

\* set_default_reasons with the single message "m1" for 'age' on an entry that
\* was seeded before with the caller's list for 'age' and 'delete': 'age' is
\* ["m1"], 'delete' still is the caller's list, which is not empty
C13_Witness ==
    /\ last.op = "set_default_reasons"
    /\ last.o \in Actors
    /\ reasons[last.o]["age"] = Own(<<"m1">>)
    /\ reasons[last.o]["delete"] = Ref(1)
    /\ heap[1] # <<>>

\* the init functions of the registries
InitFns == {"load_age", "load_adult", "load_nick", "load_guest", "seed_reasons",
            "init_boom"}

\* how often the init function f was executed on o for the actor type t
Executions(o, t, f) ==
    Cardinality({i \in DOMAIN initLog[o] : initLog[o][i] = <<t, f>>})

\* an initialization for (t, o) ended in the exception of an init function
InitFailed(o, t) == Executions(o, t, "init_boom") > 0

\* C14 as stated: also when an initialization for (actor_type, actor_object)
\* failed, no init function is executed a second time for that pair.
C14_Original ==
    \A o \in Actors, t \in ActorTypes :
        InitFailed(o, t) => \A f \in InitFns : Executions(o, t, f) <= 1

\* what the i-th init function registered for t returns on o
InitResult(t, o, i) == InitFn(lookup_init(t)[i], World, o).val

\* C16: a get / is_ call on an entry without the marker of actor_type, in
\* which no init function raises, executes every init function registered for
\* the actor type once, in registration order, whatever the earlier ones
\* returned, and then sets the marker to true if every result is None or
\* truthy (so for an empty list) and to false otherwise.
C16_WholeInitList ==
    [][\A o \in CacheActors, t \in ActorTypes :
          /\ last'.op \in {"get", "is_"} /\ last'.o = o /\ last'.t = t
          /\ abac[o][t] = Absent
          /\ last'.exc # "CollaboratorError"
          => /\ initLog'[o] = initLog[o] \o InitList(t)
             /\ abac'[o][t] =
                   PyBool(\A i \in DOMAIN lookup_init(t) :
                             \/ InitResult(t, o, i) = None
                             \/ Truthy(InitResult(t, o, i), reasons[o]))]_vars

\* the init list [load_guest, load_nick] of 'admin' has just run: load_guest
\* returned False, load_nick ran after it, and the marker is False
C16_Witness ==
    /\ last.op = "get" /\ last.t = "admin" /\ last.o = "alice" /\ last.inited
    /\ Len(initLog["alice"]) >= 2
    /\ SubSeq(initLog["alice"], Len(initLog["alice"]) - 1, Len(initLog["alice"]))
          = << <<"admin", "load_guest">>, <<"admin", "load_nick">> >>
    /\ abac["alice"]["admin"] = PyBool(FALSE)

\* C17: once the entry of an actor object holds the marker of an actor type,
\* every later step (get, is_, can, the three operations on deny reasons, the
\* replacement of the registry) leaves the marker and every attribute value
\* the entry holds as they are and executes no init function for that pair,
\* not those of a newly installed registry either; can takes its assertions
\* from the registry installed at the call.
C17_NeverCleared ==
    [][/\ \A o \in CacheActors, t \in ActorTypes :
             abac[o][t] # Absent =>
                 /\ abac'[o][t] = abac[o][t]
                 /\ \A a \in AttrNames :
                       abac[o][a] # Absent => abac'[o][a] = abac[o][a]
                 /\ \A f \in InitFns : Executions(o, t, f)' = Executions(o, t, f)
       /\ last'.op = "can" /\ last'.invoked # <<>> =>
             /\ lookup_assertions(last'.t, last'.key) # <<>>
             /\ last'.invoked[1] = lookup_assertions(last'.t, last'.key)[1]]_vars

\* 'user' was initialized under the first registry (age 17); under the second
\* registry, whose init function would store 18, get returns 17 and runs no
\* init function
C17_Witness ==
    /\ principals = RegB
    /\ last.op = "get" /\ last.t = "user" /\ last.key = "age"
    /\ last.val = PyInt(17)
    /\ ~last.inited

\* the names the init function f writes into the entry
Writes(f) ==
    CASE f \in {"load_age", "load_adult"} -> {"age"}
      [] f = "load_nick" -> {"nick"}
      [] f = "seed_reasons" -> {ReasonsKey}
      [] OTHER -> {}

\* an init function executed on o for the actor type t wrote name
WrittenUnder(o, t, name) ==
    \E i \in DOMAIN initLog[o] :
        initLog[o][i][1] = t /\ name \in Writes(initLog[o][i][2])

\* an actor type other than t has its marker in the entry of o
OtherInitialized(o, t) == \E t1 \in ActorTypes \ {t} : abac[o][t1] # Absent

\* the first access under t to an entry initialized under another actor type
\* runs the init functions of t
InitPerType ==
    [][\A o \in CacheActors, t \in ActorTypes :
          /\ last'.op \in {"get", "is_"} /\ last'.o = o /\ last'.t = t
          /\ abac[o][t] = Absent /\ OtherInitialized(o, t)
          /\ last'.exc # "CollaboratorError"
          => /\ initLog'[o] = initLog[o] \o InitList(t)
             /\ abac'[o][t] # Absent]_vars

\* C18 as stated: initialization under one actor type does not suppress
\* initialization under another, and what get / get_deny_reason return under
\* an actor type was written under that actor type. (Every deny reason of the
\* model is recorded on the entry acquired for 'user'.)
C18_Original ==
    /\ InitPerType
    /\ [](/\ last.op = "get" /\ last.exc = "" /\ last.key \in AttrNames
                /\ last.val # None
             => WrittenUnder(last.o, last.t, last.key)
          /\ last.op = "get_deny_reason" /\ last.t # "user" => last.args = <<>>)

\* C18, amended: initialization is per actor object and actor type, the entry
\* is per actor object. Initialization under one actor type does not suppress
\* initialization under another; every actor type reads the one dictionary of
\* the actor object: get returns the attribute value the entry holds and
\* get_deny_reason the reasons it holds, whatever actor type they were
\* written under.
C18_SharedEntry ==
    /\ InitPerType
    /\ [][/\ last'.op = "get" /\ last'.exc = "" /\ last'.key \in AttrNames
                /\ abac[last'.o][last'.key] # Absent
             => last'.val = abac[last'.o][last'.key]
          /\ last'.op = "get_deny_reason"
             => last'.args = Recorded(last'.o, last'.key)]_vars

\* the first get under 'admin' on an entry initialized under 'user': the init
\* functions of 'admin' ran, and get returned the age stored under 'user'
C18_Witness ==
    /\ last.op = "get" /\ last.t = "admin" /\ last.key = "age"
    /\ last.inited
    /\ last.val = PyInt(17)
    /\ ~WrittenUnder(last.o, "admin", "age")

\* C19 as stated: set_deny_reason on the entry of one actor changes what
\* get_deny_reason returns for no action on the entry of another actor, also
\* after both entries were seeded from one mapping, and changes no list of
\* the caller's mapping.
C19_Original ==
    [][last'.op = "set_deny_reason" =>
          /\ \A o \in Actors, k \in AllNames :
                o # last'.o =>
                    get_deny_reason(World, o, k)' = get_deny_reason(World, o, k)
          /\ heap' = heap]_vars

\* how often the execution contexts together have invoked the init function
\* f for the actor type t
Invocations(t, f) ==
    Cardinality({p \in UNION {{th} \X DOMAIN runs[th] : th \in Threads} :
                    runs[p[1]][p[2]] = <<t, f>>})

\* an init function was invoked twice for 'user' on the actor object
InitTwice == \E f \in {"load_age", "load_nick"} : Invocations("user", f) > 1

\* C15: without a lock the at-most-once guarantee rests on the calls not
\* overlapping. As long as no get call began while a get call of another
\* context was in progress, no init function is invoked twice for the pair;
\* with overlapping calls there is an interleaving, both contexts passing the
\* marker test before either assigns the marker, in which one is (the
\* witness).
C15_OnlyWhenInterleaved == InitTwice => overlap

\* both contexts passed the marker test before either assigned the marker,
\* and load_age was invoked twice
C15_Witness == raced /\ Invocations("user", "load_age") = 2

\* the init functions the context th has invoked since its current (or last
\* finished) call began
InCall(th) == SubSeq(runs[th], base[th] + 1, Len(runs[th]))

\* C20 as stated: a get call invokes each registered init function at most
\* once, also when an init function calls get on the pair that is being
\* initialized (the nested call starts no new initialization), and the call
\* completes: the interpreter never runs out of activations.
C20_Original ==
    \A th \in Single :
        /\ \A i, j \in DOMAIN InCall(th) : InCall(th)[i] = InCall(th)[j] => i = j
        /\ done[th].exc # "RuntimeError"

====
